---- MODULE Spec2Model ----
(***************************************************************************)
(* Model of the SSO credential service: the gRPC facade (serverAPI), the   *)
(* Auth service (Login, RegisterNewUser, UserRole, UserExists) and the     *)
(* SQLite storage (SaveUser, User, UserRole, App) it runs on.              *)
(*                                                                         *)
(* Every request is handled by its own goroutine; the storage statements   *)
(* are the only shared steps and each is one atomic action.                *)
(***************************************************************************)
EXTENDS Integers, Sequences, FiniteSets, TLC

(* ------------------------------ bounds -------------------------------- *)

\* total number of requests accepted in one behaviour
MaxCalls == 3

\* the request goroutines
Procs == {"g1", "g2", "g3"}
\* the goroutines that serve the mixed workload of Spec
Workers == {"g1", "g2"}

(* ------------------------------ inputs -------------------------------- *)

Emails == {"", "a@x.com", "b@x.com"}
Passwords == {"", "secret1", "wrongpass"}
AppIDs == {0, 1, 999}
UserIDs == {0, 1, 42}
\* the salts bcrypt may draw for a hash (the comparison does not depend on it)
Salts == {"salt1"}

(* ------------------------- program constants -------------------------- *)

emptyValue == 0

(* ------------------------------ errors -------------------------------- *)
(* A Go error is modelled as its chain of messages: fmt.Errorf("%s: %w")   *)
(* prepends the operation name, the sentinel stays at the end, and         *)
(* errors.Is looks for the sentinel at the end of the chain.               *)

Nil == <<>>

ErrInvalidCredentials == <<"invalid credentials">>
ErrInvalidAppID == <<"invalid app id">>
ErrUserExists == <<"user already exists">>
ErrUserNotFound == <<"user not found">>

StorageErrUserExists == <<"storage: user already exists">>
StorageErrUserNotFound == <<"storage: user not found">>
StorageErrAppNotFound == <<"storage: app not found">>

\* any failure of the database other than "no rows" / "unique constraint"
SqlErr == <<"sql: database failure">>
BcryptErr == <<"bcrypt: failure">>
JwtErr == <<"jwt: signing failure">>

Wrap(op, err) == <<op>> \o err

ErrorsIs(err, target) == err # Nil /\ err[Len(err)] = target[1]

(* ------------------------------ models -------------------------------- *)

NilHash == [salt |-> "", pw |-> ""]
NoUser == [id |-> 0, email |-> "", passHash |-> NilHash]
NoApp == [id |-> 0, name |-> "", secret |-> ""]
NoToken == [uid |-> 0, email |-> "", app_id |-> 0, signedFor |-> 0]

\* rows a migration may have put into the apps table
AllApps == {[id |-> 1, name |-> "test", secret |-> "test-secret"],
            [id |-> 2, name |-> "shop", secret |-> "shop-secret"]}

\* the roles table
Roles == {[id |-> 1, role |-> "admin"], [id |-> 2, role |-> "user"]}

\* enrollment rows that may exist (user_id, role_id)
AllEnrollments == {[user_id |-> 1, role_id |-> 1],
                   [user_id |-> 1, role_id |-> 2]}

(* ------------------------------ bcrypt -------------------------------- *)

GenerateFromPassword(password, salt) == [salt |-> salt, pw |-> password]

\* TRUE iff bcrypt.CompareHashAndPassword returns nil
CompareHashAndPassword(hash, password) == hash # NilHash /\ hash.pw = password

(* ------------------------------- jwt ---------------------------------- *)

\* the claims of the signed token; signedFor names the application whose
\* secret keys the signature (the secret itself is not part of the token)
GenerateNewToken(user, app) ==
    [uid |-> user.id, email |-> user.email, app_id |-> app.id, signedFor |-> app.id]

(* ------------------------------ storage ------------------------------- *)
(* One prepared statement each; dbfail stands for any failure of Prepare,  *)
(* Exec or Scan other than "no rows" and "unique constraint".              *)

Max(S) == CHOOSE x \in S : \A y \in S : y <= x

\* INTEGER PRIMARY KEY without AUTOINCREMENT: one more than the largest rowid
NextRowid(us) == IF us = {} THEN 1 ELSE Max({u.id : u \in us}) + 1

\* UNIQUE constraint of users.email
EmailTaken(us, email) == \E u \in us : u.email = email

\* variant: the INSERT without the UNIQUE constraint on email
StorageSaveUser_NoUnique(us, email, passHash, dbfail) ==
    IF dbfail
    THEN [id |-> 0, err |-> Wrap("storage.sqlite.SaveUser", SqlErr), users |-> us]
    ELSE [id |-> NextRowid(us), err |-> Nil,
          users |-> us \cup {[id |-> NextRowid(us), email |-> email,
                              passHash |-> passHash]}]

StorageSaveUser(us, email, passHash, dbfail) ==
    IF dbfail
    THEN [id |-> 0, err |-> Wrap("storage.sqlite.SaveUser", SqlErr), users |-> us]
    ELSE IF EmailTaken(us, email)
    THEN [id |-> 0, err |-> Wrap("storage.sqlite.SaveUser", StorageErrUserExists),
          users |-> us]
    ELSE [id |-> NextRowid(us), err |-> Nil,
          users |-> us \cup {[id |-> NextRowid(us), email |-> email,
                              passHash |-> passHash]}]

\* variant: the SELECT without its WHERE clause
StorageUser_AnyRow(us, email, dbfail) ==
    IF dbfail
    THEN [user |-> NoUser, err |-> Wrap("storage.sqlite.User", SqlErr)]
    ELSE IF us = {}
    THEN [user |-> NoUser, err |-> StorageErrUserNotFound]
    ELSE [user |-> CHOOSE u \in us : TRUE, err |-> Nil]

StorageUser(us, email, dbfail) ==
    IF dbfail
    THEN [user |-> NoUser, err |-> Wrap("storage.sqlite.User", SqlErr)]
    ELSE IF ~EmailTaken(us, email)
    THEN [user |-> NoUser, err |-> StorageErrUserNotFound]
    ELSE [user |-> CHOOSE u \in us : u.email = email, err |-> Nil]

\* the rows of roles JOIN enrollments for one user; QueryRow scans the first
\* row of an unordered result, so any of them may be the answer
RoleRows(ens, userID) ==
    {r.role : r \in {x \in Roles : \E en \in ens :
                        en.user_id = userID /\ en.role_id = x.id}}

StorageUserRole(ens, userID, dbfail, row) ==
    IF dbfail
    THEN [role |-> "", err |-> Wrap("storage.sqlite.UserRole", SqlErr)]
    ELSE IF RoleRows(ens, userID) = {}
    THEN [role |-> "", err |-> StorageErrUserNotFound]
    ELSE [role |-> row, err |-> Nil]

StorageApp(as, appID, dbfail) ==
    IF dbfail
    THEN [app |-> NoApp, err |-> Wrap("storage.sqlite.App", SqlErr)]
    ELSE IF ~\E a \in as : a.id = appID
    THEN [app |-> NoApp, err |-> StorageErrAppNotFound]
    ELSE [app |-> CHOOSE a \in as : a.id = appID, err |-> Nil]

(* ------------------------------ logging ------------------------------- *)

LogRec(level, msg) ==
    [level |-> level, msg |-> msg, err |-> Nil, app |-> NoApp, userID |-> 0,
     role |-> ""]

LogErr(level, msg, err) == [LogRec(level, msg) EXCEPT !.err = err]

(* --------------------------- gRPC facade ------------------------------ *)

Status(code, msg) == [code |-> code, msg |-> msg]
OK == Status("OK", "")

validateLogin(email, password, appID) ==
    IF email = "" THEN Status("InvalidArgument", "email is required")
    ELSE IF password = "" THEN Status("InvalidArgument", "password is required")
    ELSE IF appID = emptyValue THEN Status("InvalidArgument", "app_id is required")
    ELSE OK

\* first_name and last_name are fixed non-empty in every request of the model
validateRegister(email, password) ==
    IF email = "" THEN Status("InvalidArgument", "email is required")
    ELSE IF password = "" THEN Status("InvalidArgument", "password is required")
    ELSE OK

validateUserRole(userID) ==
    IF userID = emptyValue THEN Status("InvalidArgument", "user_id is required")
    ELSE OK

validateUserExists(userID) ==
    IF userID = emptyValue THEN Status("InvalidArgument", "user_id is required")
    ELSE OK

\* status the facade answers with for the error Auth.Login returned
ServerLoginStatus(err) ==
    IF err = Nil THEN OK
    ELSE IF ErrorsIs(err, ErrInvalidCredentials)
    THEN Status("InvalidArgument", "invalid email or password")
    ELSE Status("Internal", "failed to login")

ServerRegisterStatus(err) ==
    IF err = Nil THEN OK
    ELSE IF ErrorsIs(err, ErrUserExists)
    THEN Status("AlreadyExists", "user already exists")
    ELSE Status("Internal", "internal error")

ServerUserRoleStatus(err) ==
    IF err = Nil THEN OK
    ELSE IF ErrorsIs(err, ErrUserNotFound)
    THEN Status("NotFound", "user not found")
    ELSE Status("Internal", "internal error")

ServerUserExistsStatus(err) ==
    IF err = Nil THEN OK
    ELSE IF ErrorsIs(err, ErrUserNotFound)
    THEN Status("NotFound", "user not found")
    ELSE Status("Internal", "internal error")

\* variant: the facade answers Exists = true whenever the call did not fail
ServerUserExistsPayload_Always(isExists, err) == err = Nil

\* the Exists field of UserExistsResponse
ServerUserExistsPayload(isExists, err) == err = Nil /\ isExists

(* --------------------------- Auth service ----------------------------- *)

\* variant: the storage error is passed on without mapping "not found"
LoginUserErr_Unmapped(err) == Wrap("services.auth.Login", err)

\* error Auth.Login returns when userProvider.User failed
LoginUserErr(err) ==
    IF ErrorsIs(err, StorageErrUserNotFound)
    THEN Wrap("services.auth.Login", ErrInvalidCredentials)
    ELSE Wrap("services.auth.Login", err)

\* error Auth.Login returns when the password does not match the hash
LoginCompareErr == Wrap("services.auth.Login", ErrInvalidCredentials)

\* error Auth.Login returns when appProvider.App failed
LoginAppErr(err) == Wrap("services.auth.Login", err)

\* variant: the storage error is passed on without mapping "exists"
RegisterSaveErr_Unmapped(err) == Wrap("services.auth.RegisterNewUser", err)

\* error Auth.RegisterNewUser returns when userSaver.SaveUser failed
RegisterSaveErr(err) ==
    IF ErrorsIs(err, StorageErrUserExists)
    THEN Wrap("services.auth.RegisterNewUser", ErrUserExists)
    ELSE Wrap("services.auth.RegisterNewUser", err)

\* error Auth.UserRole returns when userProvider.UserRole failed
UserRoleErr(err) ==
    IF ErrorsIs(err, StorageErrUserNotFound)
    THEN Wrap("services.auth.UserRole", ErrInvalidAppID)
    ELSE Wrap("services.auth.UserRole", err)

\* Auth.UserExists: whether a user record with the id exists; "not found" is
\* the answer false, any other store failure is an error
AuthUserExists(us, userID, dbfail) ==
    IF dbfail
    THEN [exists |-> FALSE, err |-> Wrap("services.auth.UserExists", SqlErr)]
    ELSE [exists |-> \E u \in us : u.id = userID, err |-> Nil]

(* ------------------------------- state -------------------------------- *)

VARIABLES
    users,        \* rows of the users table
    apps,         \* rows of the apps table
    enrollments,  \* rows of the enrollments table
    proc,         \* per goroutine: the request it handles and how far it is
    last,         \* the request that returned most recently, as it was answered
    ncalls,       \* number of requests accepted so far
    registered    \* history: the successful RegisterNewUser calls, in order

vars == <<users, apps, enrollments, proc, last, ncalls, registered>>

store == <<users, apps, enrollments>>

Idle ==
    [pc |-> "idle", op |-> "", email |-> "", password |-> "", appID |-> 0,
     userID |-> 0,
     \* locals of the handler
     passHash |-> NilHash, user |-> NoUser, app |-> NoApp,
     \* what the Auth method returned
     token |-> NoToken, uid |-> 0, role |-> "", exists |-> FALSE, err |-> Nil,
     \* what the facade answered
     status |-> OK, respToken |-> NoToken, respUserId |-> 0, respRole |-> "",
     respExists |-> FALSE,
     \* log records of this request and the collaborators it invoked, in order
     log |-> {}, trace |-> <<>>,
     \* history: was the email taken / the (email, password) pair registered
     \* when the request arrived; did the insert race with another one
     taken |-> FALSE, known |-> FALSE, raced |-> FALSE]

Free(p) == proc[p].pc = "idle" /\ ncalls < MaxCalls

Known(email, password) ==
    \E i \in 1..Len(registered) :
        registered[i].email = email /\ registered[i].password = password

Request(op, email, password, appID, userID) ==
    [Idle EXCEPT !.op = op, !.email = email, !.password = password,
                 !.appID = appID, !.userID = userID,
                 !.taken = EmailTaken(users, email),
                 !.known = Known(email, password)]

\* the facade rejects the request before calling the Auth service
Rejected(r, st) == [r EXCEPT !.pc = "done", !.status = st]

Init ==
    /\ users = {}
    /\ apps = AllApps
    /\ enrollments \in SUBSET AllEnrollments
    /\ proc = [p \in Procs |-> Idle]
    /\ last = Idle
    /\ ncalls = 0
    /\ registered = <<>>

\* goroutine p moves on to r; a request that is done is answered and leaves
Step(p, r) ==
    IF r.pc = "done"
    THEN proc' = [proc EXCEPT ![p] = Idle] /\ last' = r
    ELSE proc' = [proc EXCEPT ![p] = r] /\ last' = last

(* ------------------------------- Login -------------------------------- *)

\* Auth.Login returns (token, err) and serverAPI.Login answers
LoginReturn(r, token, err, logs) ==
    [r EXCEPT !.pc = "done", !.token = token, !.err = err,
              !.status = ServerLoginStatus(err),
              !.respToken = IF err = Nil THEN token ELSE NoToken,
              !.log = @ \cup logs]

\* variant: the result of bcrypt.CompareHashAndPassword is ignored
LoginVerify_NoCompare(r0, q) ==
    LET r == [r0 EXCEPT !.trace = Append(@, "User")] IN
    IF q.err # Nil
    THEN LoginReturn(r, NoToken, LoginUserErr(q.err),
            {IF ErrorsIs(q.err, StorageErrUserNotFound)
             THEN LogErr("WARN", "user not found", q.err)
             ELSE LogErr("ERROR", "failed to get user", q.err)})
    ELSE [r EXCEPT !.pc = "login_app", !.trace = Append(@, "Compare"),
                   !.user = q.user]

\* Auth.Login after userProvider.User answered q: the error branches of the
\* lookup, then bcrypt.CompareHashAndPassword on the stored hash
LoginVerify(r0, q) ==
    LET r == [r0 EXCEPT !.trace = Append(@, "User")] IN
    IF q.err # Nil
    THEN LoginReturn(r, NoToken, LoginUserErr(q.err),
            {IF ErrorsIs(q.err, StorageErrUserNotFound)
             THEN LogErr("WARN", "user not found", q.err)
             ELSE LogErr("ERROR", "failed to get user", q.err)})
    ELSE IF ~CompareHashAndPassword(q.user.passHash, r.password)
    THEN LoginReturn([r EXCEPT !.trace = Append(@, "Compare"), !.user = q.user],
            NoToken, LoginCompareErr,
            {LogErr("INFO", "invalid credentials", BcryptErr)})
    ELSE [r EXCEPT !.pc = "login_app", !.trace = Append(@, "Compare"),
                   !.user = q.user]

\* Auth.Login after appProvider.App answered q: the two Debug records, the
\* error branch, then jwt.GenerateNewToken
LoginIssue(r0, q, signfail) ==
    LET r == [r0 EXCEPT !.trace = Append(@, "App"),
                        !.log = @ \cup
                            {[LogRec("DEBUG", "app contains") EXCEPT !.app = q.app],
                             LogErr("DEBUG", "error is", q.err)}] IN
    IF q.err # Nil
    THEN LoginReturn(r, NoToken, LoginAppErr(q.err), {})
    ELSE IF signfail
    THEN LoginReturn([r EXCEPT !.trace = Append(@, "Token"), !.app = q.app],
            NoToken, Wrap("services.auth.Login", JwtErr),
            {LogRec("INFO", "user logged in successfully"),
             LogErr("ERROR", "failed to generate token", JwtErr)})
    ELSE LoginReturn([r EXCEPT !.trace = Append(@, "Token"), !.app = q.app],
            GenerateNewToken(r.user, q.app), Nil,
            {LogRec("INFO", "user logged in successfully")})

\* serverAPI.Login: validateLogin, then Auth.Login through the user lookup
\* and the password check
LoginCall(p) ==
    /\ Free(p)
    /\ \E email \in Emails, password \in Passwords, appID \in AppIDs,
          dbfail \in BOOLEAN :
        LET r == Request("Login", email, password, appID, 0)
            v == validateLogin(email, password, appID)
        IN Step(p, IF v # OK THEN Rejected(r, v)
                   ELSE LoginVerify(
                        [r EXCEPT !.log = {LogRec("INFO", "attempting to login user")}],
                        StorageUser(users, email, dbfail)))
    /\ ncalls' = ncalls + 1
    /\ UNCHANGED <<store, registered>>

\* variant: a successful password check re-hashes and stores the password
LoginApp_Rehash(p) ==
    /\ proc[p].pc = "login_app"
    /\ \E dbfail \in BOOLEAN, signfail \in BOOLEAN :
        Step(p, LoginIssue(proc[p], StorageApp(apps, proc[p].appID, dbfail),
                           signfail))
    /\ users' = {IF u = proc[p].user
                 THEN [u EXCEPT !.passHash = GenerateFromPassword(u.passHash.pw, "salt2")]
                 ELSE u : u \in users}
    /\ UNCHANGED <<apps, enrollments, ncalls, registered>>

\* Auth.Login from the application lookup to the return
LoginApp(p) ==
    /\ proc[p].pc = "login_app"
    /\ \E dbfail \in BOOLEAN, signfail \in BOOLEAN :
        Step(p, LoginIssue(proc[p], StorageApp(apps, proc[p].appID, dbfail),
                           signfail))
    /\ UNCHANGED <<store, ncalls, registered>>

(* -------------------------- RegisterNewUser --------------------------- *)

\* Auth.RegisterNewUser returns (id, err) and serverAPI.Register answers
RegisterReturn(r, id, err, logs) ==
    [r EXCEPT !.pc = "done", !.uid = id, !.err = err,
              !.status = ServerRegisterStatus(err),
              !.respUserId = IF err = Nil THEN id ELSE 0,
              !.log = @ \cup logs]

\* serverAPI.Register: validateRegister, then Auth.RegisterNewUser up to its
\* store call (the password is hashed before the insert)
RegisterCall(p) ==
    /\ Free(p)
    /\ \E email \in Emails, password \in Passwords, salt \in Salts,
          hashfail \in BOOLEAN :
        LET r == Request("Register", email, password, 0, 0)
            v == validateRegister(email, password)
            l == {LogRec("INFO", "registering user")}
        IN Step(p, IF v # OK THEN Rejected(r, v)
                   ELSE IF hashfail
                   THEN RegisterReturn(r, 0,
                        Wrap("services.auth.RegisterNewUser", BcryptErr),
                        l \cup {LogErr("ERROR", "failed to generate password hash",
                                       BcryptErr)})
                   ELSE [r EXCEPT !.pc = "reg_save", !.log = l,
                            !.passHash = GenerateFromPassword(password, salt)])
    /\ ncalls' = ncalls + 1
    /\ UNCHANGED <<store, registered>>

\* the other goroutines whose insert of the same email is in flight
Rivals(p) ==
    {q \in Procs \ {p} : proc[q].pc = "reg_save" /\ proc[q].email = proc[p].email}

\* id, err := a.userSaver.SaveUser(...): the INSERT, and the return
RegisterSave(p) ==
    /\ proc[p].pc = "reg_save"
    /\ \E dbfail \in BOOLEAN :
        LET r == [proc[p] EXCEPT !.trace = Append(@, "SaveUser"),
                                 !.raced = @ \/ Rivals(p) # {}]
            q == StorageSaveUser(users, r.email, r.passHash, dbfail)
        IN /\ last' =
                IF q.err # Nil
                THEN RegisterReturn(r, 0, RegisterSaveErr(q.err),
                        {IF ErrorsIs(q.err, StorageErrUserExists)
                         THEN LogErr("WARN", "user already exists", q.err)
                         ELSE LogErr("ERROR", "failed to save user", q.err)})
                ELSE RegisterReturn(r, q.id, Nil,
                        {[LogRec("INFO", "user registered") EXCEPT !.userID = q.id]})
           /\ proc' = [x \in Procs |->
                        IF x = p THEN Idle
                        ELSE IF x \in Rivals(p)
                        THEN [proc[x] EXCEPT !.raced = TRUE]
                        ELSE proc[x]]
           /\ users' = q.users
           /\ registered' =
                IF q.err = Nil
                THEN Append(registered, [email |-> r.email, password |-> r.password,
                                         id |-> q.id])
                ELSE registered
    /\ UNCHANGED <<apps, enrollments, ncalls>>

(* ------------------------------ UserRole ------------------------------ *)

\* serverAPI.UserRole: validateUserRole, Auth.UserRole and its one store query
UserRoleCall(p) ==
    /\ Free(p)
    /\ \E userID \in UserIDs, dbfail \in BOOLEAN :
       \E row \in RoleRows(enrollments, userID) \cup {""} :
        /\ row = "" <=> RoleRows(enrollments, userID) = {}
        /\ LET r == Request("UserRole", "", "", 0, userID)
               v == validateUserRole(userID)
               l == {LogRec("INFO", "checking if user is admin")}
               q == StorageUserRole(enrollments, userID, dbfail, row)
               e == IF q.err = Nil THEN Nil ELSE UserRoleErr(q.err)
           IN Step(p, IF v # OK THEN Rejected(r, v)
                      ELSE [r EXCEPT !.pc = "done", !.trace = <<"UserRole">>,
                        !.role = q.role, !.err = e,
                        !.status = ServerUserRoleStatus(e),
                        !.respRole = IF e = Nil THEN q.role ELSE "",
                        !.log = l \cup
                            {IF q.err = Nil
                             THEN [LogRec("INFO", "checked user role")
                                    EXCEPT !.role = q.role]
                             ELSE IF ErrorsIs(q.err, StorageErrUserNotFound)
                             THEN LogErr("WARN", "user not found", q.err)
                             ELSE LogErr("ERROR", "failed to check role of the user",
                                         q.err)}])
    /\ ncalls' = ncalls + 1
    /\ UNCHANGED <<store, registered>>

(* ----------------------------- UserExists ----------------------------- *)

\* serverAPI.UserExists: validateUserExists, then Auth.UserExists
UserExistsCall(p) ==
    /\ Free(p)
    /\ \E userID \in UserIDs, dbfail \in BOOLEAN :
        LET r == Request("UserExists", "", "", 0, userID)
            v == validateUserExists(userID)
            q == AuthUserExists(users, userID, dbfail)
        IN Step(p, IF v # OK THEN Rejected(r, v)
                   ELSE [r EXCEPT !.pc = "done", !.trace = <<"UserExists">>,
                        !.exists = q.exists, !.err = q.err,
                        !.status = ServerUserExistsStatus(q.err),
                        !.respExists = ServerUserExistsPayload(q.exists, q.err)])
    /\ ncalls' = ncalls + 1
    /\ UNCHANGED <<store, registered>>

(* --------------------------- specification ---------------------------- *)

\* any two requests of any kind in flight together
Next ==
    \E p \in Workers :
        \/ LoginCall(p)
        \/ LoginApp(p)
        \/ RegisterCall(p)
        \/ RegisterSave(p)
        \/ UserRoleCall(p)
        \/ UserExistsCall(p)

Spec == Init /\ [][Next]_vars

\* registrations only, up to three of them in flight together
NextRace ==
    \E p \in Procs :
        \/ RegisterCall(p)
        \/ RegisterSave(p)

RaceSpec == Init /\ [][NextRace]_vars

(* ------------------------------ properties ---------------------------- *)

\* the requests in flight and the one answered last
Requests == {proc[p] : p \in Procs} \cup {last}

AppIDsInStore == {a.id : a \in apps}

\* the Auth method was reached (the facade's validation passed) and answered
LoginAnswered(r) ==
    /\ r.pc = "done" /\ r.op = "Login"
    /\ r.email # "" /\ r.password # "" /\ r.appID # 0

RegisterAnswered(r) ==
    /\ r.pc = "done" /\ r.op = "Register"
    /\ r.email # "" /\ r.password # ""

\* the database itself failed during the request (not "no rows", not "unique")
StoreFailed(r) == ErrorsIs(r.err, SqlErr)

\* what a caller sees of a login refused for its credentials
RefusedCredentials(r) ==
    /\ r.err = <<"services.auth.Login", "invalid credentials">>
    /\ r.status = [code |-> "InvalidArgument", msg |-> "invalid email or password"]
    /\ r.respToken = NoToken

\* the stored hash of the looked-up user does not match the supplied password
WrongPassword(r) == r.user # NoUser /\ r.user.passHash.pw # r.password

\* C1: a login with an email that has no user record is refused with
\* InvalidCredentials, and so is a login with a registered email and a wrong
\* password: the error, the status code and the message are the same in both
\* cases (whenever the store answered the lookup)
C1_UnknownEmailLikeWrongPassword ==
    LoginAnswered(last) /\ ~StoreFailed(last) =>
        /\ ~last.taken => RefusedCredentials(last)
        /\ WrongPassword(last) => RefusedCredentials(last)
        /\ RefusedCredentials(last) => ~last.taken \/ WrongPassword(last)

C1_Witness ==
    /\ LoginAnswered(last) /\ ~last.taken /\ last.appID \in AppIDsInStore
    /\ users # {}
    /\ RefusedCredentials(last)

\* the identifier RegisterNewUser returned for the email
RegisteredId(email) ==
    (CHOOSE i \in 1..Len(registered) : registered[i].email = email) 

\* C2: a login with a pair that RegisterNewUser accepted earlier and with the
\* id of an application in the store succeeds, and its token carries the
\* user's identifier and the application's identifier (unless the database
\* or the signing itself fails)
C2_RegisteredLoginSucceeds ==
    /\ LoginAnswered(last) /\ last.known /\ last.appID \in AppIDsInStore
    /\ ~StoreFailed(last) /\ ~ErrorsIs(last.err, JwtErr)
    => /\ last.err = Nil
       /\ last.status.code = "OK"
       /\ last.respToken # NoToken
       /\ last.respToken.uid = registered[RegisteredId(last.email)].id
       /\ last.respToken.app_id = last.appID

C2_Witness ==
    /\ LoginAnswered(last) /\ last.known /\ last.err = Nil
    /\ Len(registered) = 2
    /\ last.respToken.uid = 2 /\ last.respToken.app_id = 1

\* C3: registering an email that an earlier call registered fails with
\* UserExists, and no identifier is returned by two successful registrations
\* (the identifiers of the stored users are pairwise distinct)
C3_DuplicateEmailAndFreshIds ==
    /\ RegisterAnswered(last) /\ last.taken /\ last.trace # <<>>
       /\ ~StoreFailed(last)
       => /\ ErrorsIs(last.err, ErrUserExists)
          /\ last.status.code = "AlreadyExists"
          /\ last.respUserId = 0
    /\ \A i, j \in 1..Len(registered) :
          registered[i].id = registered[j].id => i = j
    /\ \A u, v \in users : u.id = v.id => u = v
    /\ RegisterAnswered(last) /\ last.err = Nil =>
          /\ last.respUserId = registered[Len(registered)].id
          /\ \E u \in users : u.id = last.respUserId /\ u.email = last.email

C3_Witness ==
    /\ RegisterAnswered(last) /\ last.taken /\ ErrorsIs(last.err, ErrUserExists)
    /\ Len(registered) = 2

\* the successful registrations of the email
Winners(email) == {i \in 1..Len(registered) : registered[i].email = email}

\* C4: when registrations of one email run together, one of them succeeds
\* and the others get UserExists, and the store holds one record for the
\* email (a registration fails otherwise only if the hashing or the database
\* fails)
C4_OneWinnerPerEmail ==
    /\ \A e \in Emails : Cardinality({u \in users : u.email = e}) <= 1
    /\ \A e \in Emails : Cardinality(Winners(e)) <= 1
    /\ RegisterAnswered(last) /\ last.trace # <<>> /\ ~StoreFailed(last) =>
          /\ last.err = Nil \/ ErrorsIs(last.err, ErrUserExists)
          /\ Cardinality(Winners(last.email)) = 1
          /\ Cardinality({u \in users : u.email = last.email}) = 1
          /\ last.err = Nil <=> registered[Len(registered)].id = last.respUserId
                                /\ last.respUserId # 0
                                /\ registered[Len(registered)].email = last.email
                                /\ last.status.code = "OK"

\* three registrations of a free email in flight together: one has won, this
\* one lost and the third is still to insert
C4_Witness ==
    /\ RegisterAnswered(last) /\ last.raced /\ ~last.taken
    /\ ErrorsIs(last.err, ErrUserExists)
    /\ \E p \in Procs : /\ proc[p].pc = "reg_save" /\ proc[p].raced
                        /\ proc[p].email = last.email /\ ~proc[p].taken

\* C5: a login of a registered user with the right password and an
\* application id that is not in the store fails with InvalidAppID, not
\* InvalidCredentials, and returns no token
C5_UnknownAppIsInvalidAppID ==
    /\ LoginAnswered(last) /\ last.known /\ last.appID \notin AppIDsInStore
    /\ ~StoreFailed(last)
    => /\ ErrorsIs(last.err, ErrInvalidAppID)
       /\ ~ErrorsIs(last.err, ErrInvalidCredentials)
       /\ last.respToken = NoToken

\* C6: UserRole for a non-zero user id without a role enrollment fails with
\* UserNotFound, and the facade answers NotFound
C6_NoEnrollmentIsUserNotFound ==
    /\ last.pc = "done" /\ last.op = "UserRole" /\ last.userID # 0
    /\ RoleRows(enrollments, last.userID) = {}
    /\ ~StoreFailed(last)
    => /\ ErrorsIs(last.err, ErrUserNotFound)
       /\ last.status.code = "NotFound"

\* C7: UserExists for a non-zero user id answers true exactly when a user
\* record with the id is stored; a missing record is the answer false with
\* no error and never the NotFound status; only a database failure is an error
C7_UserExistsIsABoolean ==
    last.pc = "done" /\ last.op = "UserExists" /\ last.userID # 0 =>
        /\ last.status.code # "NotFound"
        /\ ~StoreFailed(last) =>
              /\ last.err = Nil /\ last.status.code = "OK"
              /\ last.respExists <=> \E u \in users : u.id = last.userID
        /\ last.err # Nil => StoreFailed(last) /\ last.status.code = "Internal"
                             /\ ~last.respExists

C7_Witness ==
    /\ last.pc = "done" /\ last.op = "UserExists" /\ last.userID = 42
    /\ users # {}
    /\ last.err = Nil /\ last.status.code = "OK" /\ ~last.respExists

Secrets == {a.secret : a \in AllApps}

InError(err) == \E i \in 1..Len(err) : err[i] \in Secrets

\* C8: the secret of the looked-up application is in no log record, in no
\* response and in no error of a login
C8_SecretNeverLeaves ==
    \A r \in Requests : r.op = "Login" =>
        /\ \A l \in r.log : l.app.secret \notin Secrets /\ ~InError(l.err)
        /\ ~InError(r.err)
        /\ r.status.msg \notin Secrets
        /\ r.respToken.email \notin Secrets

\* a step of a Login request
LoginStep ==
    \/ \E p \in Procs : proc'[p] # proc[p] /\ "Login" \in {proc[p].op, proc'[p].op}
    \/ last' # last /\ last'.op = "Login"

\* C9: no step of a login changes the user, application or enrollment rows
C9_LoginWritesNothing == [][LoginStep => store' = store]_vars

C9_Witness ==
    /\ LoginAnswered(last) /\ last.err = Nil /\ last.respToken # NoToken
    /\ users # {}

LoginOrder == <<"User", "Compare", "App", "Token">>

\* C10: a login looks the user up, verifies the password, looks the
\* application up and issues the token, in this order, and stops at the first
\* step that fails: the application is looked up only for a found user whose
\* hash matched, and a token is issued and returned only if moreover the
\* application was found
C10_LoginOrder ==
    \A r \in Requests : r.op = "Login" =>
        /\ Len(r.trace) <= 4 /\ r.trace = SubSeq(LoginOrder, 1, Len(r.trace))
        /\ Len(r.trace) >= 2 => r.user \in users /\ r.user.email = r.email
        /\ Len(r.trace) >= 3 => r.user.passHash.pw = r.password
        /\ Len(r.trace) = 4 => r.app \in apps /\ r.app.id = r.appID
        /\ r.pc = "done" /\ Len(r.trace) < 4 => r.err # Nil \/ r.status.code # "OK"
        /\ r.pc = "done" /\ r.err # Nil => r.token = NoToken /\ r.respToken = NoToken
        /\ r.respToken # NoToken =>
              /\ Len(r.trace) = 4 /\ r.pc = "done" /\ r.err = Nil
              /\ \E u \in users : u.email = r.email /\ u.passHash.pw = r.password
        /\ r.pc = "login_app" => r.trace = <<"User", "Compare">>

C10_Witness ==
    /\ LoginAnswered(last) /\ last.trace = LoginOrder /\ last.respToken # NoToken
    /\ \E p \in Procs : proc[p].pc = "login_app"

====
